---- MODULE Spec2Model ----
(***************************************************************************)
(* Model of the optipic convert and estimate routes                        *)
(* (src/app/api/convert/route.ts): form normalisation, the transform       *)
(* pipeline, the single-pass encoder, the target-size search and the       *)
(* batch orchestration of POST; of the helpers of lib/utils; and of the    *)
(* Home page (queue, settings, Export, Estimate, Clear).                   *)
(*                                                                         *)
(* Numbers are JavaScript doubles in the source.  The model uses integers  *)
(* plus three sentinels: Infinity (the result of an overflowing            *)
(* multiplication and the initial bestDiff), NaN (an unparseable string)   *)
(* and UndefinedNum (an absent numeric option).  Huge stands for a finite  *)
(* double so large that multiplying it by 1024 overflows (e.g. 1e306).     *)
(***************************************************************************)
EXTENDS Integers, Sequences, FiniteSets, TLC

\* ------------------------------------------------------------------ bounds
MaxFiles == 2
MaxSizeHalfKB == 5
MaxQueue == 2       \* files in the page's queue
MaxInFlight == 2    \* requests of one kind the page has in flight

\* ------------------------------------------------------ number sentinels
Infinity == 1000000000
NaN == -1000000000
UndefinedNum == -999999999
Huge == 900000
\* a value that is a function where a number is expected
FunctionValue == -999999998

null == "<null>"
undefined == "<undefined>"

IsFinite(x) == x # Infinity /\ x # NaN /\ x # -Infinity

TruthyNum_ZeroToo(x) == x # NaN /\ x # UndefinedNum

\* truthiness of a JavaScript number (or undefined)
TruthyNum(x) == x # 0 /\ x # NaN /\ x # UndefinedNum

\* truthiness of a form value: null and the empty string are falsy
TruthyStr(s) == s # null /\ s # "" /\ s # undefined

Abs(x) == IF x < 0 THEN -x ELSE x

Max(a, b) == IF a > b THEN a ELSE b

\* a - b on doubles, b possibly Infinity, a finite
Minus(a, b) == IF b = Infinity THEN -Infinity ELSE a - b

\* Math.abs on doubles
MathAbs(x) == IF x = Infinity \/ x = -Infinity THEN Infinity ELSE Abs(x)

\* x * 1024 on doubles: a finite x near the top of the range overflows
Times1024(x) == IF x >= Huge THEN Infinity ELSE x * 1024

RoundHalf_Undivided(a, b) == a + b + 1

\* Math.round of (a + b) / 2 for integers a, b: halves round towards +Infinity
RoundHalf(a, b) == (a + b + 1) \div 2

\* Number(value) for the strings the model submits
Number(s) ==
  CASE s = "" -> 0
    [] s = "-1" -> -1
    [] s = "0" -> 0
    [] s = "1" -> 1
    [] s = "2" -> 2
    [] s = "3" -> 3
    [] s = "30" -> 30
    [] s = "40" -> 40
    [] s = "45" -> 45
    [] s = "60" -> 60
    [] s = "75" -> 75
    [] s = "88" -> 88
    [] s = "100" -> 100
    [] s = "123" -> 123
    [] s = "1e306" -> Huge
    [] s = "Infinity" -> Infinity
    [] OTHER -> NaN

\* ------------------------------------------------------------ route tables
presetQualityTable == [tiny |-> 45, small |-> 60, balanced |-> 75, crisp |-> 88]

\* keys every object literal inherits from Object.prototype: presetQuality
\* is a plain object, and reading one of them yields a function, not undefined
ObjectPrototypeKeys ==
  {"constructor", "toString", "valueOf", "hasOwnProperty", "isPrototypeOf"}

\* presetQuality[preset] ?? 75: only a missing key reads as undefined
presetQuality(preset) ==
  IF preset \in DOMAIN presetQualityTable THEN presetQualityTable[preset]
  ELSE IF preset \in ObjectPrototypeKeys THEN FunctionValue
  ELSE 75

mimeTable ==
  [jpeg |-> "image/jpeg", jpg |-> "image/jpeg", png |-> "image/png",
   webp |-> "image/webp", avif |-> "image/avif", tiff |-> "image/tiff",
   gif |-> "image/gif"]

\* mimeForFormat[outputFormat]: a missing key reads as undefined
mimeForFormat(format) ==
  IF format \in DOMAIN mimeTable THEN mimeTable[format] ELSE undefined

\* --------------------------------------------------- JavaScript values
\* The arguments of the helpers, by type: a form value is a string, a File
\* (an object) or null; lib/utils also admits numbers, booleans, undefined.
JsNull == [t |-> "null"]
JsUndefined == [t |-> "undefined"]
JsObject == [t |-> "object"]
JsNum(n) == [t |-> "number", n |-> n]
JsStr(s) == [t |-> "string", s |-> s]
JsBool(b) == [t |-> "boolean", b |-> b]

\* formData.get(field) of a text field
FormValue(v) == IF v = null THEN JsNull ELSE JsStr(v)

\* !value is false
Truthy(v) ==
  CASE v.t = "number" -> v.n # 0 /\ v.n # NaN
    [] v.t = "string" -> v.s # ""
    [] v.t = "boolean" -> v.b
    [] v.t = "object" -> TRUE
    [] OTHER -> FALSE

\* Number(value); a File converts through "[object File]"
ToNumber(v) ==
  CASE v.t = "number" -> v.n
    [] v.t = "string" -> Number(v.s)
    [] v.t = "boolean" -> IF v.b THEN 1 ELSE 0
    [] v.t = "null" -> 0
    [] OTHER -> NaN

\* typeof value === "object"
TypeofObject(v) == v.t \in {"object", "null"}

\* value === "true" and the like: same type and same value
StrictEquals(v, w) ==
  /\ v.t = w.t
  /\ CASE v.t = "number" -> v.n = w.n /\ v.n # NaN
       [] v.t = "string" -> v.s = w.s
       [] v.t = "boolean" -> v.b = w.b
       [] OTHER -> TRUE

\* the convert route's own helpers: lines 35-43
safeNumber(value, fallback) ==
  IF ~Truthy(value) THEN fallback
  ELSE IF IsFinite(ToNumber(value)) THEN ToNumber(value) ELSE fallback

toBoolean(value) ==
  StrictEquals(value, JsStr("true")) \/ StrictEquals(value, JsStr("1"))

safeNumberUtils_Unguarded(value, fallback) ==
  IF IsFinite(ToNumber(value)) THEN ToNumber(value) ELSE fallback

\* the helpers of lib/utils, which the estimate route imports
safeNumberUtils(value, fallback) ==
  IF ~Truthy(value) \/ TypeofObject(value) THEN fallback
  ELSE IF IsFinite(ToNumber(value)) THEN ToNumber(value) ELSE fallback

toBooleanUtils_Truthy(value) == Truthy(value)

toBooleanUtils(value) ==
  \/ StrictEquals(value, JsStr("true"))
  \/ StrictEquals(value, JsStr("1"))
  \/ StrictEquals(value, JsNum(1))
  \/ StrictEquals(value, JsBool(TRUE))

\* ---------------------------------------------------------- file names
\* A file name is a sequence of one-character strings.
LowerTable ==
  [A |-> "a", B |-> "b", C |-> "c", D |-> "d", E |-> "e", F |-> "f",
   G |-> "g", H |-> "h", I |-> "i", J |-> "j", K |-> "k", L |-> "l",
   M |-> "m", N |-> "n", O |-> "o", P |-> "p", Q |-> "q", R |-> "r",
   S |-> "s", T |-> "t", U |-> "u", V |-> "v", W |-> "w", X |-> "x",
   Y |-> "y", Z |-> "z"]

toLowerCase(c) == IF c \in DOMAIN LowerTable THEN LowerTable[c] ELSE c

RECURSIVE Join(_)
Join(cs) == IF cs = <<>> THEN "" ELSE Head(cs) \o Join(Tail(cs))

\* positions of "." in the name
Dots(name) == {k \in 1..Len(name) : name[k] = "."}

LastDot_First(name) == CHOOSE k \in Dots(name) : \A m \in Dots(name) : m >= k

LastDot(name) == CHOOSE k \in Dots(name) : \A m \in Dots(name) : m <= k

\* name.split(".") has more than one part iff the name holds a "."; pop()
\* is what follows the last "."
getExtension(name) ==
  IF Dots(name) = {} THEN ""
  ELSE Join([k \in 1..(Len(name) - LastDot(name)) |->
               toLowerCase(name[LastDot(name) + k])])

\* name.replace(/\.[^/.]+$/, ""): drops a last ".xyz" whose xyz is non-empty
\* and holds no "/"
baseName(name) ==
  IF Dots(name) = {} \/ LastDot(name) = Len(name)
       \/ (\E k \in (LastDot(name) + 1)..Len(name) : name[k] = "/")
  THEN name
  ELSE SubSeq(name, 1, LastDot(name) - 1)

\* ------------------------------------------------------- format resolution
normalizeFormat_KeepJpg(format, fallback) ==
  IF format = "auto" THEN
    CASE fallback = "jpeg" -> "jpeg"
      [] fallback = "jpg" -> "jpg"
      [] fallback = "png" -> "png"
      [] fallback = "webp" -> "webp"
      [] fallback = "avif" -> "avif"
      [] fallback = "tiff" -> "tiff"
      [] fallback = "gif" -> "gif"
      [] OTHER -> "jpeg"
  ELSE format

normalizeFormat(format, fallback) ==
  IF format = "auto" THEN
    CASE fallback = "jpeg" -> "jpeg"
      [] fallback = "jpg" -> "jpeg"
      [] fallback = "png" -> "png"
      [] fallback = "webp" -> "webp"
      [] fallback = "avif" -> "avif"
      [] fallback = "tiff" -> "tiff"
      [] fallback = "gif" -> "gif"
      [] OTHER -> "jpeg"
  ELSE IF format = "jpg" THEN "jpeg"
  ELSE format

\* the estimate route's copy: the extension is optional (fallback ?? "")
normalizeFormatEstimate(format, fallback) ==
  LET normalizedFallback == IF fallback = undefined \/ fallback = null
                            THEN "" ELSE fallback
  IN IF format = "auto" THEN
       CASE normalizedFallback = "jpeg" -> "jpeg"
         [] normalizedFallback = "jpg" -> "jpeg"
         [] normalizedFallback = "png" -> "png"
         [] normalizedFallback = "webp" -> "webp"
         [] normalizedFallback = "avif" -> "avif"
         [] normalizedFallback = "tiff" -> "tiff"
         [] normalizedFallback = "gif" -> "gif"
         [] OTHER -> "jpeg"
     ELSE IF format = "jpg" THEN "jpeg"
     ELSE format

hasAlphaFormats_NoGif == {"png", "webp", "avif"}

\* line 228
hasAlphaFormats == {"png", "webp", "avif", "gif"}

\* ------------------------------------------------------------- pipeline
buildPipeline_MetadataFirst(options) ==
  (IF options.keepMetadata THEN <<[op |-> "withMetadata"]>> ELSE <<>>)
  \o <<[op |-> "rotate"]>>
  \o (IF TruthyNum(options.width) \/ TruthyNum(options.height)
      THEN <<[op |-> "resize",
              width |-> IF TruthyNum(options.width) THEN options.width
                        ELSE UndefinedNum,
              height |-> IF TruthyNum(options.height) THEN options.height
                         ELSE UndefinedNum,
              fit |-> IF TruthyStr(options.fit) THEN options.fit ELSE "inside",
              withoutEnlargement |-> TRUE]>>
      ELSE <<>>)
  \o (IF TruthyStr(options.background)
      THEN <<[op |-> "flatten", background |-> options.background]>>
      ELSE <<>>)

\* The stages sharp is asked to apply, in call order.
buildPipeline(options) ==
  <<[op |-> "rotate"]>>
  \o (IF TruthyNum(options.width) \/ TruthyNum(options.height)
      THEN <<[op |-> "resize",
              width |-> IF TruthyNum(options.width) THEN options.width
                        ELSE UndefinedNum,
              height |-> IF TruthyNum(options.height) THEN options.height
                         ELSE UndefinedNum,
              fit |-> IF TruthyStr(options.fit) THEN options.fit ELSE "inside",
              withoutEnlargement |-> TRUE]>>
      ELSE <<>>)
  \o (IF options.keepMetadata THEN <<[op |-> "withMetadata"]>> ELSE <<>>)
  \o (IF TruthyStr(options.background)
      THEN <<[op |-> "flatten", background |-> options.background]>>
      ELSE <<>>)

\* The encode call encodeWithQuality sets up: pipeline plus codec and its
\* options.  The bytes come from sharp (toBuffer), outside the source.
encodeWithQuality(format, quality, options) ==
  LET pipeline == buildPipeline(options)
  IN CASE format = "jpeg" ->
            [pipeline |-> pipeline, codec |-> "jpeg", quality |-> quality,
             mozjpeg |-> TRUE, progressive |-> options.progressive]
       [] format = "png" ->
            [pipeline |-> pipeline, codec |-> "png", quality |-> quality,
             compressionLevel |-> 9, palette |-> TRUE]
       [] format = "webp" ->
            [pipeline |-> pipeline, codec |-> "webp", quality |-> quality,
             effort |-> 5, lossless |-> options.lossless]
       [] format = "avif" ->
            [pipeline |-> pipeline, codec |-> "avif", quality |-> quality,
             effort |-> 5]
       [] format = "tiff" ->
            [pipeline |-> pipeline, codec |-> "tiff", quality |-> quality,
             compression |-> "lzw"]
       [] format = "gif" ->
            [pipeline |-> pipeline, codec |-> "gif", quality |-> UndefinedNum]
       [] OTHER ->
            [pipeline |-> pipeline, codec |-> "jpeg", quality |-> quality]

\* ------------------------------------------------------------------ state
VARIABLES
  route,     \* the endpoint called: "convert" or "estimate"
  form,      \* the submitted form fields (strings, or null when absent)
  files,     \* the submitted files: name and what sharp makes of the image
  pc,        \* position of POST: "received", "running", "zipping", "responded"
  req,       \* the fields POST parsed from the form
  jobs,      \* one record per files.map callback
  response,  \* the Response POST returned
  util,      \* one call of a helper of lib/utils: its arguments and result
  page       \* the state of the Home component (src/app/page.tsx)

vars == <<route, form, files, pc, req, jobs, response, util, page>>

\* no helper call and no page: the routes alone
NoUtil == [fn |-> "none"]

NoPage == [mounted |-> FALSE]

Jobs == 1..Len(files)

NoCall == [pipeline |-> <<>>, codec |-> "none", quality |-> UndefinedNum]

NoOutput == [name |-> <<>>, buffer |-> <<>>, mime |-> undefined]

NoOptions ==
  [width |-> UndefinedNum, height |-> UndefinedNum, fit |-> "inside",
   keepMetadata |-> FALSE, background |-> undefined, lossless |-> FALSE,
   progressive |-> FALSE]

NoRequest ==
  [requestedFormat |-> "auto", preset |-> "balanced", quality |-> 0,
   targetSizeKB |-> 0, resizeWidth |-> 0, resizeHeight |-> 0,
   fit |-> "inside", keepMetadata |-> FALSE, flatten |-> FALSE,
   background |-> "#ffffff", lossless |-> FALSE, progressive |-> FALSE]

NoResponse ==
  [status |-> 0, contentType |-> undefined, filename |-> <<>>,
   body |-> <<>>, error |-> ""]

\* a callback that has not run yet
NewJob ==
  [pc |-> "idle",            \* idle, read, search, fallback, single, done, failed
   outputFormat |-> "",
   shouldFlatten |-> FALSE,
   options |-> NoOptions,
   targetBytes |-> 0,
   low |-> 0, high |-> 0,
   bestBuffer |-> <<>>,      \* <<>> is null, <<b>> is the buffer b
   bestDiff |-> Infinity,
   i |-> 0,
   quality |-> 0,
   call |-> NoCall,          \* the encode awaited
   returned |-> <<>>,        \* the buffer the encode expression yielded
   output |-> NoOutput,
   \* history, not program state
   encodeCalls |-> 0,        \* encodeWithQuality calls made so far
   loopEncodes |-> 0,        \* of these, calls made by the search loop
   seen |-> {},              \* lengths of the buffers the encodes returned
   known |-> {},             \* <<quality, length>> pairs (monotone encoder)
   hist |-> <<>>,            \* the lengths in call order (monotone encoder)
   order |-> 0]              \* the callback was the order-th to resolve

\* ------------------------------------------------------------- the inputs
KB == 1024

Sizes == {(k * KB) \div 2 : k \in 0..MaxSizeHalfKB}

jpgName == <<"a", ".", "j", "p", "g">>

FormOf(format, preset, quality, target, flatten, background) ==
  [format |-> format, preset |-> preset, quality |-> quality,
   targetSizeKB |-> target, width |-> null, height |-> null, fit |-> null,
   keepMetadata |-> null, flatten |-> flatten, background |-> background,
   lossless |-> null, progressive |-> null]

FileOf(name, corrupt, sizes, monotone, natural) ==
  [name |-> name,
   size |-> 4 * KB,          \* file.size
   corrupt |-> corrupt,      \* sharp rejects the image
   sizes |-> sizes,          \* the lengths an encode of the image may have
   monotone |-> monotone,    \* length is non-decreasing in quality
   natural |-> natural]      \* <<quality, length>> pairs fixed beforehand

InitWith(routes, forms, fileLists) ==
  /\ route \in routes
  /\ form \in forms
  /\ files \in fileLists
  /\ pc = "received"
  /\ req = NoRequest
  /\ jobs = [j \in 1..Len(files) |-> NewJob]
  /\ response = NoResponse
  /\ util = NoUtil
  /\ page = NoPage

\* a request with one file
One(fs) == {<<f>> : f \in fs}

\* a request with no file, and the batches of 2..MaxFiles files drawn from fs
Batches(fs) == {<<>>} \cup UNION {[1..n -> fs] : n \in 2..MaxFiles}

\* the images of a batch: intact or corrupt, one possible encoded length
BatchFiles == {FileOf(jpgName, c, {KB}, FALSE, {}) : c \in BOOLEAN}

BatchForms ==
  {FormOf("jpeg", null, null, t, null, null) : t \in {null, "1", "1e306"}}

InitBatch == InitWith({"convert"}, BatchForms, Batches(BatchFiles))

\* the target-size search on one image, any encoded length at every encode
SearchForms ==
  {FormOf("jpeg", null, q, t, null, null) :
     q \in {null, "30", "100"}, t \in {null, "0", "-1", "1", "2", "1e306"}}

SearchFiles == {FileOf(jpgName, c, Sizes, FALSE, {}) : c \in BOOLEAN}

Init == InitBatch \/ InitWith({"convert"}, SearchForms, One(SearchFiles))

\* the search from baseQuality 75 on one image whose encoded length is
\* non-decreasing in quality; natural fixes the length at quality 75
MonoForms ==
  {FormOf("jpeg", null, q, t, null, null) : q \in {null, "75"}, t \in {"1", "2"}}

MonoFiles == {FileOf(jpgName, FALSE, Sizes, TRUE, {<<75, n>>}) : n \in Sizes}

InitMono == InitBatch \/ InitWith({"convert"}, MonoForms, One(MonoFiles))

\* format resolution, flattening and labelling on one image, on either
\* endpoint: every format field, with extensions known, unknown and missing
FormatNames ==
  {<<"a", ".", "j", "p", "g">>, <<"a", ".", "J", "P", "G">>,
   <<"a", ".", "j", "p", "e", "g">>, <<"a", ".", "p", "n", "g">>,
   <<"a", ".", "w", "e", "b", "p">>, <<"a", ".", "a", "v", "i", "f">>,
   <<"a", ".", "t", "i", "f", "f">>, <<"a", ".", "g", "i", "f">>,
   <<"a", ".", "b", "m", "p">>, <<"a", ".", "b", ".", "P", "n", "g">>,
   <<"a">>, <<"a", ".">>, <<".", "g", "i", "f">>}

FormatValues ==
  {null, "", "auto", "jpeg", "jpg", "png", "webp", "avif", "tiff", "gif",
   "bmp", "JPEG"}

FormatForms ==
  {FormOf(f, null, null, t, fl, bg) :
     f \in FormatValues, t \in {null, "1"},
     fl \in {null, "true", "1", "false"}, bg \in {null, "", "#000000"}}

FormatFiles == {FileOf(n, FALSE, {KB}, FALSE, {}) : n \in FormatNames}

InitFormat ==
  InitBatch \/ InitWith({"convert", "estimate"}, FormatForms, One(FormatFiles))

\* quality resolution on one image, single pass: every preset, known,
\* unknown, empty and absent, with and without a quality field
QualityForms ==
  {FormOf("jpeg", p, q, null, null, null) :
     p \in {null, "", "tiny", "small", "balanced", "crisp", "huge", "constructor"},
     q \in {null, "", "0", "30", "abc"}}

QualityFiles == {FileOf(jpgName, FALSE, {KB}, FALSE, {})}

InitQuality == InitBatch \/ InitWith({"convert"}, QualityForms, One(QualityFiles))

\* the helpers on their own: one call of one helper on one argument
StringArgs ==
  {JsStr(x) : x \in {"", "0", "1", "30", "123", "1e306", "Infinity", "true",
                     "false", "invalid"}}

NumberArgs == {JsNum(n) : n \in {0, 1, -1, 30, NaN, Infinity}}

\* FormDataEntryValue | null: the arguments of the convert route's helpers
FormArgs == StringArgs \cup {JsNull, JsObject}

\* string | number | null | undefined | File: lib/utils safeNumber
UtilsNumberArgs == FormArgs \cup NumberArgs \cup {JsUndefined}

\* lib/utils toBoolean takes booleans too
UtilsBooleanArgs == UtilsNumberArgs \cup {JsBool(b) : b \in BOOLEAN}

Fallbacks == {0, 10, 75}

UtilNames ==
  FormatNames \cup
  {<<"f", "i", "l", "e", ".", "t", "x", "t">>,
   <<"M", "y", "P", "h", "o", "t", "o", ".", "J", "P", "G">>,
   <<"f", "i", "l", "e">>, <<".", "c", "o", "n", "f", "i", "g">>,
   <<"f", "i", "l", "e", ".">>, <<>>, <<".">>, <<".", ".">>,
   <<"a", ".", ".", "p", "n", "g">>, <<"a", ".", "t", "a", "r", ".", "G", "Z">>}

UtilOf(value, fallback, name) ==
  [fn |-> "none", value |-> value, fallback |-> fallback, name |-> name,
   result |-> undefined]

InitUtils ==
  /\ route = "convert"
  /\ form = FormOf(null, null, null, null, null, null)
  /\ files = <<>>
  /\ pc = "idle"
  /\ req = NoRequest
  /\ jobs = <<>>
  /\ response = NoResponse
  /\ page = NoPage
  /\ util \in {UtilOf(v, f, <<>>) : v \in UtilsBooleanArgs, f \in Fallbacks}
              \cup {UtilOf(JsUndefined, 0, n) : n \in UtilNames}

\* ------------------------------------------------------------- the page
\* The Home component after its first render and effects: the useState
\* initial values (lines 52-71), progressive switched off by the format
\* effect since format is "auto".  result is <<>> for null and <<r>> for the
\* Result r; an object URL is known by whether it was revoked.  converts
\* and estimates are the fetch calls awaited, each with what its handler
\* captured.
NewPage ==
  [mounted |-> TRUE,
   files |-> <<>>,
   format |-> "auto",
   preset |-> "balanced",
   quality |-> 75,
   targetSizeKB |-> "",
   width |-> "",
   height |-> "",
   fit |-> "inside",
   keepMetadata |-> FALSE,
   flattenBackground |-> TRUE,
   background |-> "#ffffff",
   lossless |-> FALSE,
   progressive |-> FALSE,
   processing |-> FALSE,
   estimating |-> FALSE,
   estimate |-> <<>>,
   status |-> "idle",
   error |-> "",
   result |-> <<>>,
   converts |-> <<>>,
   estimates |-> <<>>]

\* what the user may drop or pick: images and a file that is not an image
Picked ==
  [png |-> [name |-> "a.png", type |-> "image/png"],
   jpg |-> [name |-> "b.jpg", type |-> "image/jpeg"],
   txt |-> [name |-> "x.txt", type |-> "text/plain"]]

Incoming ==
  {<<Picked.png>>, <<Picked.jpg>>, <<Picked.txt>>, <<Picked.png, Picked.txt>>,
   <<Picked.png, Picked.jpg>>}

PageFormats == {"auto", "jpeg"}

PagePresets == {"tiny", "balanced"}

\* the error payloads of a failed request; "" is a body without an error
ErrorPayloads == {"", "codec error"}

InitPage ==
  /\ route = "convert"
  /\ form = FormOf(null, null, null, null, null, null)
  /\ files = <<>>
  /\ pc = "idle"
  /\ req = NoRequest
  /\ jobs = <<>>
  /\ response = NoResponse
  /\ util = NoUtil
  /\ page = NewPage

\* the transform options on one image, on either endpoint: every width,
\* height, fit, metadata and flatten field, single pass and search
PipelineForms ==
  {[FormOf(f, null, null, t, fl, null) EXCEPT
      !.width = w, !.height = h, !.fit = fit, !.keepMetadata = km] :
     f \in {"jpeg", "png"}, t \in {null, "1"}, fl \in {null, "true"},
     w \in {null, "", "0", "100", "abc", "-1"}, h \in {null, "0", "40"},
     fit \in {null, "cover"}, km \in {null, "true", "1", "false"}}

PipelineFiles == {FileOf(jpgName, FALSE, {KB}, FALSE, {})}

InitPipeline ==
  InitBatch \/ InitWith({"convert", "estimate"}, PipelineForms, One(PipelineFiles))

\* batches of different images under different names, on either endpoint
OrderFiles ==
  {FileOf(jpgName, FALSE, {KB}, FALSE, {}),
   FileOf(<<"b", ".", "p", "n", "g">>, FALSE, {2 * KB}, FALSE, {})}

OrderForms ==
  {FormOf(f, null, null, t, null, null) : f \in {"auto", "jpeg"}, t \in {null, "1"}}

InitOrder ==
  InitBatch \/ InitWith({"convert", "estimate"}, OrderForms, Batches(OrderFiles))

\* batches of images searched concurrently: the encoded length of an image
\* is a fixed step curve of the quality (KB/2 up to quality a, KB up to
\* quality b, 3 KB/2 above), so that a job alone has one possible run
StepFile(a, b) ==
  FileOf(jpgName, FALSE, {KB \div 2, KB, (3 * KB) \div 2}, TRUE,
         {<<a, KB \div 2>>, <<a + 1, KB>>, <<b, KB>>, <<b + 1, (3 * KB) \div 2>>})

StepFiles ==
  {StepFile(40, 60), StepFile(53, 54), StepFile(30, 31), StepFile(35, 50)}

StepForms == {FormOf("jpeg", null, null, "1", null, null)}

StepBatches == UNION {[1..n -> StepFiles] : n \in 2..MaxFiles}

InitStep == InitBatch \/ InitWith({"convert"}, StepForms, StepBatches)

\* the same request sent to either endpoint: the number fields in every
\* shape, and the format and option fields present and absent, on images
\* whose encoded length is a function of the quality
BothNumberForms ==
  {FormOf("jpeg", p, q, t, null, null) :
     p \in {null, "tiny", "huge"}, q \in {null, "", "30", "abc"},
     t \in {null, "", "0", "1", "-1", "1e306", "abc"}}

BothOptionForms ==
  {[FormOf(f, null, null, t, fl, bg) EXCEPT
      !.width = w, !.keepMetadata = km, !.lossless = ll, !.progressive = pr] :
     f \in {null, "auto", "jpg", "png"}, t \in {null, "1"},
     fl \in {null, "true"}, bg \in {null, "#000"}, w \in {null, "100"},
     km \in {null, "1"}, ll \in {null, "true"}, pr \in {null, "true"}}

BothFiles ==
  {[StepFile(30, 40) EXCEPT !.name = n] :
     n \in {jpgName, <<"b", ".", "P", "N", "G">>, <<"c">>}}

InitBoth ==
  \/ InitBatch
  \/ InitWith({"convert", "estimate"}, BothNumberForms \cup BothOptionForms,
              One(BothFiles))

\* --------------------------------------------------------------- actions
LoopCall_Shared(job) ==
  LET quality == RoundHalf(jobs[1].low, jobs[1].high)
  IN [job EXCEPT !.pc = "search",
                 !.quality = quality,
                 !.call = encodeWithQuality(job.outputFormat, quality, job.options),
                 !.encodeCalls = @ + 1,
                 !.loopEncodes = @ + 1]

\* the encode call of loop iteration i: lines 170-176
LoopCall(job) ==
  LET quality == RoundHalf(job.low, job.high)
  IN [job EXCEPT !.pc = "search",
                 !.quality = quality,
                 !.call = encodeWithQuality(job.outputFormat, quality, job.options),
                 !.encodeCalls = @ + 1,
                 !.loopEncodes = @ + 1]

encodeToTargetSizeEnter_Eager(job, targetBytes, baseQuality) ==
  LoopCall(LoopCall([job EXCEPT !.targetBytes = targetBytes,
                                !.low = 30,
                                !.high = Max(baseQuality, 40),
                                !.bestBuffer = <<>>,
                                !.bestDiff = Infinity,
                                !.i = 0]))

\* encodeToTargetSize up to its first await: lines 164-176
encodeToTargetSizeEnter(job, targetBytes, baseQuality) ==
  LoopCall([job EXCEPT !.targetBytes = targetBytes,
                       !.low = 30,
                       !.high = Max(baseQuality, 40),
                       !.bestBuffer = <<>>,
                       !.bestDiff = Infinity,
                       !.i = 0])

\* the single-pass call: lines 251-256
SingleCall(job, quality) ==
  [job EXCEPT !.pc = "single",
              !.quality = quality,
              !.call = encodeWithQuality(job.outputFormat, quality, job.options),
              !.encodeCalls = @ + 1]

\* the fallback call after the loop: line 191
FallbackCall(job, baseQuality) ==
  [job EXCEPT !.pc = "fallback",
              !.quality = baseQuality,
              !.call = encodeWithQuality(job.outputFormat, baseQuality, job.options),
              !.encodeCalls = @ + 1]

\* the rest of the callback once the bytes are there: lines 258-266
Finish(job, file, encoded) ==
  LET extension == IF job.outputFormat = "jpeg" THEN "jpg" ELSE job.outputFormat
      outputName == baseName(file.name) \o <<".", extension>>
  IN [job EXCEPT !.pc = "done",
                 !.returned = <<encoded>>,
                 !.order = Cardinality({k \in Jobs : jobs[k].pc = "done"}) + 1,
                 !.output = IF route = "estimate"
                            THEN [name |-> outputName,
                                  inputName |-> file.name,
                                  inputSize |-> file.size,
                                  outputSize |-> encoded.length]
                            ELSE [name |-> outputName,
                                  buffer |-> <<encoded>>,
                                  mime |-> mimeForFormat(job.outputFormat)]]

\* POST from the request to the first await of every callback: lines 197-225
\* (convert) and 480-501 (estimate)
Post ==
  /\ pc = "received"
  /\ IF Len(files) = 0
     THEN /\ pc' = "responded"
          /\ response' = [NoResponse EXCEPT !.status = 400,
                                            !.contentType = "application/json",
                                            !.error = "No files provided."]
          /\ UNCHANGED <<req, jobs>>
     ELSE LET preset == IF TruthyStr(form.preset) THEN form.preset ELSE "balanced"
              num(v, fallback) ==
                IF route = "estimate" THEN safeNumberUtils(FormValue(v), fallback)
                ELSE safeNumber(FormValue(v), fallback)
              bool(v) == IF route = "estimate" THEN toBooleanUtils(FormValue(v))
                         ELSE toBoolean(FormValue(v))
          IN /\ req' =
                  [requestedFormat |-> IF TruthyStr(form.format) THEN form.format
                                       ELSE "auto",
                   preset |-> preset,
                   quality |-> num(form.quality, presetQuality(preset)),
                   targetSizeKB |-> num(form.targetSizeKB, 0),
                   resizeWidth |-> num(form.width, 0),
                   resizeHeight |-> num(form.height, 0),
                   fit |-> IF TruthyStr(form.fit) THEN form.fit ELSE "inside",
                   keepMetadata |-> bool(form.keepMetadata),
                   flatten |-> bool(form.flatten),
                   background |-> IF TruthyStr(form.background)
                                  THEN form.background ELSE "#ffffff",
                   lossless |-> bool(form.lossless),
                   progressive |-> bool(form.progressive)]
             /\ jobs' = [j \in Jobs |-> [jobs[j] EXCEPT !.pc = "read"]]
             /\ pc' = "running"
             /\ UNCHANGED response
  /\ UNCHANGED <<util, page, route, form, files>>

UseSearch_ZeroToo(targetSizeKB) == targetSizeKB >= 0

\* line 243: the search is taken for a positive target
UseSearch(targetSizeKB) == targetSizeKB > 0

\* a callback from the file's bytes to its first encode call: lines 226-256
Prepare(j) ==
  /\ jobs[j].pc = "read"
  /\ LET inputExt == getExtension(files[j].name)
         outputFormat == IF route = "estimate"
                         THEN normalizeFormatEstimate(req.requestedFormat, inputExt)
                         ELSE normalizeFormat(req.requestedFormat, inputExt)
         shouldFlatten == req.flatten /\ outputFormat \notin hasAlphaFormats
         encoderOptions ==
           [width |-> IF TruthyNum(req.resizeWidth) THEN req.resizeWidth
                      ELSE UndefinedNum,
            height |-> IF TruthyNum(req.resizeHeight) THEN req.resizeHeight
                       ELSE UndefinedNum,
            fit |-> req.fit,
            keepMetadata |-> req.keepMetadata,
            background |-> IF shouldFlatten THEN req.background ELSE undefined,
            lossless |-> req.lossless,
            progressive |-> req.progressive]
         job == [jobs[j] EXCEPT !.outputFormat = outputFormat,
                                !.shouldFlatten = shouldFlatten,
                                !.options = encoderOptions,
                                !.known = files[j].natural]
     IN jobs' = [jobs EXCEPT ![j] =
                   IF UseSearch(req.targetSizeKB)
                   THEN encodeToTargetSizeEnter(job, Times1024(req.targetSizeKB),
                                                req.quality)
                   ELSE SingleCall(job, req.quality)]
  /\ UNCHANGED <<util, page, route, form, files, pc, req, response>>

\* what sharp may answer to the encode the job awaits
EncoderMayReturn(file, job, len) ==
  /\ ~file.corrupt
  /\ len \in file.sizes
  /\ file.monotone =>
       \A kn \in job.known :
          /\ kn[1] <= job.quality => kn[2] <= len
          /\ kn[1] >= job.quality => kn[2] >= len

Encoded(job, len, src, iter) ==
  [length |-> len, call |-> job.call, src |-> src, iter |-> iter]

Remember(file, job, len) ==
  [job EXCEPT !.seen = @ \cup {len},
              !.known = IF file.monotone THEN @ \cup {<<job.quality, len>>} ELSE @,
              !.hist = IF file.monotone THEN Append(@, len) ELSE @]

\* line 177
DiffTo(length, targetBytes) == MathAbs(Minus(length, targetBytes))

IsBetter_Always(diff, bestDiff) == TRUE

\* line 178
IsBetter(diff, bestDiff) == diff < bestDiff

TrackBest_OnTie(job, encoded) ==
  LET diff == DiffTo(encoded.length, job.targetBytes)
  IN IF diff <= job.bestDiff
     THEN [job EXCEPT !.bestDiff = diff, !.bestBuffer = <<encoded>>]
     ELSE job

\* lines 178-181
TrackBest(job, encoded) ==
  LET diff == DiffTo(encoded.length, job.targetBytes)
  IN IF IsBetter(diff, job.bestDiff)
     THEN [job EXCEPT !.bestDiff = diff, !.bestBuffer = <<encoded>>]
     ELSE job

UpdateBounds_Swapped(job, encoded) ==
  IF encoded.length > job.targetBytes
  THEN [job EXCEPT !.low = job.quality + 2]
  ELSE [job EXCEPT !.high = job.quality - 2]

\* lines 182-186
UpdateBounds(job, encoded) ==
  IF encoded.length > job.targetBytes
  THEN [job EXCEPT !.high = job.quality - 2]
  ELSE [job EXCEPT !.low = job.quality + 2]

\* line 169
LoopContinues(i) == i < 8

HasBest_Never(job) == FALSE

\* line 190: bestBuffer ?? ...
HasBest(job) == job.bestBuffer # <<>>

PromiseAll_AsResolved(newJobs) ==
  [k \in Jobs |-> newJobs[CHOOSE m \in Jobs : newJobs[m].order = k].output]

\* the array Promise.all resolves to (lines 223 and 499): the value of the
\* k-th callback at index k
PromiseAll(newJobs) == [k \in Jobs |-> newJobs[k].output]

AnyRejected_Ignored(newJobs) == FALSE

\* Promise.all rejects as soon as one callback throws
AnyRejected(newJobs) == \E k \in Jobs : newJobs[k].pc = "failed"

\* Promise.all and what follows it once the callbacks of newJobs have run as
\* far as they can: lines 223, 268-278 and 305-313 (convert), 499, 549-560
\* (estimate)
Settle(newJobs) ==
  IF pc # "running" THEN UNCHANGED <<pc, response>>
  ELSE IF AnyRejected(newJobs)
  THEN /\ pc' = "responded"
       /\ response' = [NoResponse EXCEPT !.status = 500,
                                         !.contentType = "application/json",
                                         !.error = "codec error"]
  ELSE IF \A k \in Jobs : newJobs[k].pc = "done"
  THEN IF route = "estimate"
       THEN /\ pc' = "responded"
            /\ response' = [NoResponse EXCEPT
                              !.status = 200,
                              !.contentType = "application/json",
                              !.body = PromiseAll(newJobs)]
       ELSE IF Len(files) = 1
       THEN /\ pc' = "responded"
            /\ response' = [NoResponse EXCEPT
                              !.status = 200,
                              !.contentType = newJobs[1].output.mime,
                              !.filename = newJobs[1].output.name,
                              !.body = newJobs[1].output.buffer]
       ELSE /\ pc' = "zipping"
            /\ UNCHANGED response
  ELSE UNCHANGED <<pc, response>>

\* an encode of the search loop returns its bytes: lines 177-192
LoopEncoded(j, len) ==
  /\ jobs[j].pc = "search"
  /\ EncoderMayReturn(files[j], jobs[j], len)
  /\ LET encoded == Encoded(jobs[j], len, "loop", jobs[j].i + 1)
         tracked == TrackBest(Remember(files[j], jobs[j], len), encoded)
         bounded == UpdateBounds(tracked, encoded)
         stepped == [bounded EXCEPT !.i = @ + 1]
         newJob == IF LoopContinues(stepped.i) THEN LoopCall(stepped)
                   ELSE IF HasBest(stepped)
                   THEN Finish(stepped, files[j], stepped.bestBuffer[1])
                   ELSE FallbackCall(stepped, req.quality)
         newJobs == [jobs EXCEPT ![j] = newJob]
     IN /\ jobs' = newJobs
        /\ Settle(newJobs)
  /\ UNCHANGED <<util, page, route, form, files, req>>

\* the fallback encode returns its bytes: line 191
FallbackEncoded(j, len) ==
  /\ jobs[j].pc = "fallback"
  /\ EncoderMayReturn(files[j], jobs[j], len)
  /\ LET encoded == Encoded(jobs[j], len, "fallback", 0)
         newJob == Finish(Remember(files[j], jobs[j], len), files[j], encoded)
         newJobs == [jobs EXCEPT ![j] = newJob]
     IN /\ jobs' = newJobs
        /\ Settle(newJobs)
  /\ UNCHANGED <<util, page, route, form, files, req>>

\* the single-pass encode returns its bytes: lines 251-256
SingleEncoded(j, len) ==
  /\ jobs[j].pc = "single"
  /\ EncoderMayReturn(files[j], jobs[j], len)
  /\ LET encoded == Encoded(jobs[j], len, "single", 0)
         newJob == Finish(Remember(files[j], jobs[j], len), files[j], encoded)
         newJobs == [jobs EXCEPT ![j] = newJob]
     IN /\ jobs' = newJobs
        /\ Settle(newJobs)
  /\ UNCHANGED <<util, page, route, form, files, req>>

\* sharp rejects the encode the job awaits: the callback throws, Promise.all
\* rejects and POST answers from its catch block (lines 305-313)
EncodeFailed(j) ==
  /\ jobs[j].pc \in {"search", "fallback", "single"}
  /\ files[j].corrupt
  /\ LET newJobs == [jobs EXCEPT ![j].pc = "failed"]
     IN /\ jobs' = newJobs
        /\ Settle(newJobs)
  /\ UNCHANGED <<util, page, route, form, files, req>>

\* the archive stream ends: lines 280-304
ZipFinished ==
  /\ pc = "zipping"
  /\ pc' = "responded"
  /\ response' = [NoResponse EXCEPT
                    !.status = 200,
                    !.contentType = "application/zip",
                    !.filename = <<"optipic-export.zip">>,
                    !.body = PromiseAll(jobs)]
  /\ UNCHANGED <<util, page, route, form, files, req, jobs>>

\* one call of a helper: route.ts lines 35-48, lib/utils lines 13-29
Call(fn, result) ==
  /\ util.fn = "none"
  /\ util' = [util EXCEPT !.fn = fn, !.result = result]
  /\ UNCHANGED <<page, route, form, files, pc, req, jobs, response>>

CallSafeNumber ==
  /\ util.value \in FormArgs
  /\ Call("safeNumber", safeNumber(util.value, util.fallback))

CallSafeNumberUtils ==
  /\ util.value \in UtilsNumberArgs
  /\ Call("safeNumberUtils", safeNumberUtils(util.value, util.fallback))

CallToBoolean ==
  /\ util.value \in FormArgs
  /\ Call("toBoolean", toBoolean(util.value))

CallToBooleanUtils ==
  /\ util.value \in UtilsBooleanArgs
  /\ Call("toBooleanUtils", toBooleanUtils(util.value))

CallGetExtension == Call("getExtension", getExtension(util.name))

NextUtils ==
  \/ CallSafeNumber
  \/ CallSafeNumberUtils
  \/ CallToBoolean
  \/ CallToBooleanUtils
  \/ CallGetExtension

\* ------------------------------------------------------- page handlers
\* file.type.startsWith("image/"): line 79
IsImage(file) == file.type \in {"image/png", "image/jpeg"}

RECURSIVE Images(_)
Images(list) ==
  IF list = <<>> THEN <<>>
  ELSE IF IsImage(Head(list)) THEN <<Head(list)>> \o Images(Tail(list))
  ELSE Images(Tail(list))

\* URL.revokeObjectURL on the url of every item
Revoke(items) == [k \in 1..Len(items) |-> [items[k] EXCEPT !.revoked = TRUE]]

\* the cleanup of the [files, result] effect, run when either changes: it
\* revokes the urls of the files and of the result of the render before
\* (lines 260-265)
Cleanup(p) == [p EXCEPT !.files = Revoke(@), !.result = Revoke(@)]

RemoveAt(seq, k) == SubSeq(seq, 1, k - 1) \o SubSeq(seq, k + 1, Len(seq))

RECURSIVE Without(_, _)
Without(entries, name) ==
  IF entries = <<>> THEN <<>>
  ELSE IF Head(entries).inputName = name THEN Without(Tail(entries), name)
  ELSE <<Head(entries)>> \o Without(Tail(entries), name)

Handled(newPage) ==
  /\ page.mounted
  /\ page' = newPage
  /\ UNCHANGED <<util, route, form, files, pc, req, jobs, response>>

\* lines 78-96
handleAddFiles(incoming) ==
  LET list == Images(incoming)
  IN /\ Len(page.files) + Len(list) <= MaxQueue
     /\ IF list = <<>>
        THEN Handled([page EXCEPT !.error = "Please add image files only."])
        ELSE Handled([Cleanup(page) EXCEPT
                        !.error = "",
                        !.result = <<>>,
                        !.estimate = <<>>,
                        !.status = "idle",
                        !.files = @ \o [k \in 1..Len(list) |->
                                          [name |-> list[k].name,
                                           revoked |-> FALSE]]])

\* lines 106-111
handlePresetChange(value) ==
  Handled([page EXCEPT !.preset = value,
                       !.quality = IF value # "custom"
                                   THEN presetQualityTable[value] ELSE @])

\* the format select and the [format] effect: lines 456 and 249-258
setFormat(value) ==
  /\ value # page.format
  /\ Handled([page EXCEPT !.format = value,
                          !.lossless = IF value # "webp" THEN FALSE ELSE @,
                          !.progressive = (value = "jpeg")])

\* lines 113-126, on the item at position k of the queue
removeFile(k) ==
  /\ k \in 1..Len(page.files)
  /\ Handled([Cleanup(page) EXCEPT
                !.files = RemoveAt(@, k),
                !.estimate = Without(@, page.files[k].name)])

clearAll_KeepStatus ==
  Handled([Cleanup(page) EXCEPT !.files = <<>>,
                                !.result = <<>>,
                                !.estimate = <<>>])

\* lines 128-136
clearAll ==
  Handled([Cleanup(page) EXCEPT !.files = <<>>,
                                !.result = <<>>,
                                !.estimate = <<>>,
                                !.status = "idle"])

ExportDisabled_QueueOnly(p) == Len(p.files) = 0

\* line 321
ExportDisabled(p) == p.processing \/ Len(p.files) = 0

\* line 313
EstimateDisabled(p) == p.estimating \/ p.processing \/ Len(p.files) = 0

\* a click on Export: handleSubmit up to its fetch, lines 145-174.  The
\* button is disabled on an empty queue, so the guard of line 146 passes.
handleSubmit ==
  /\ ~ExportDisabled(page)
  /\ Len(page.converts) < MaxInFlight
  /\ Handled([(IF page.result # <<>> THEN Cleanup(page) ELSE page) EXCEPT
                !.processing = TRUE,
                !.status = "processing",
                !.error = "",
                !.result = <<>>,
                !.converts = Append(@, [count |-> Len(page.files)])])

\* the response is ok and its blob is read: lines 181-196 and 200-202
ConvertResolved(i) ==
  /\ i \in 1..Len(page.converts)
  /\ Handled([Cleanup(page) EXCEPT
                !.result = <<[count |-> page.converts[i].count,
                              revoked |-> FALSE]>>,
                !.status = "done",
                !.processing = FALSE,
                !.converts = RemoveAt(@, i)])

ConvertRejected_StillProcessing(i, payload) ==
  /\ i \in 1..Len(page.converts)
  /\ Handled([page EXCEPT
                !.error = IF payload # "" THEN payload ELSE "Conversion failed.",
                !.status = "idle",
                !.converts = RemoveAt(@, i)])

\* the fetch throws or the response is not ok: lines 176-179 and 197-202
ConvertRejected(i, payload) ==
  /\ i \in 1..Len(page.converts)
  /\ Handled([page EXCEPT
                !.error = IF payload # "" THEN payload ELSE "Conversion failed.",
                !.status = "idle",
                !.processing = FALSE,
                !.converts = RemoveAt(@, i)])

\* a click on Estimate: handleEstimate up to its fetch, lines 205-233
handleEstimate ==
  /\ ~EstimateDisabled(page)
  /\ Len(page.estimates) < MaxInFlight
  /\ Handled([page EXCEPT
                !.estimating = TRUE,
                !.status = "processing",
                !.error = "",
                !.estimates = Append(@, [names |-> [k \in 1..Len(page.files) |->
                                                     page.files[k].name]])])

\* the response is ok: one entry per submitted file, lines 238-240, 244-246
EstimateResolved(i) ==
  /\ i \in 1..Len(page.estimates)
  /\ Handled([page EXCEPT
                !.estimate = [k \in 1..Len(page.estimates[i].names) |->
                                [inputName |-> page.estimates[i].names[k]]],
                !.status = "done",
                !.estimating = FALSE,
                !.estimates = RemoveAt(@, i)])

\* the fetch throws or the response is not ok: lines 234-237 and 241-246
EstimateRejected(i, payload) ==
  /\ i \in 1..Len(page.estimates)
  /\ Handled([page EXCEPT
                !.error = IF payload # "" THEN payload ELSE "Estimate failed.",
                !.status = "idle",
                !.estimating = FALSE,
                !.estimates = RemoveAt(@, i)])

ConvertSettles ==
  \E i \in 1..MaxInFlight :
     ConvertResolved(i) \/ \E payload \in ErrorPayloads : ConvertRejected(i, payload)

EstimateSettles ==
  \E i \in 1..MaxInFlight :
     EstimateResolved(i) \/ \E payload \in ErrorPayloads : EstimateRejected(i, payload)

NextPage ==
  \/ \E incoming \in Incoming : handleAddFiles(incoming)
  \/ \E value \in PagePresets : handlePresetChange(value)
  \/ \E value \in PageFormats : setFormat(value)
  \/ \E k \in 1..MaxQueue : removeFile(k)
  \/ clearAll
  \/ handleSubmit
  \/ \E i \in 1..MaxInFlight : ConvertResolved(i)
  \/ \E i \in 1..MaxInFlight : \E payload \in ErrorPayloads : ConvertRejected(i, payload)
  \/ handleEstimate
  \/ \E i \in 1..MaxInFlight : EstimateResolved(i)
  \/ \E i \in 1..MaxInFlight : \E payload \in ErrorPayloads : EstimateRejected(i, payload)

Next ==
  \/ Post
  \/ \E j \in Jobs : Prepare(j)
  \/ \E j \in Jobs : \E len \in Sizes : LoopEncoded(j, len)
  \/ \E j \in Jobs : \E len \in Sizes : FallbackEncoded(j, len)
  \/ \E j \in Jobs : \E len \in Sizes : SingleEncoded(j, len)
  \/ \E j \in Jobs : EncodeFailed(j)
  \/ ZipFinished

Spec == Init /\ [][Next]_vars

SpecBatch == InitBatch /\ [][Next]_vars

SpecMono == InitMono /\ [][Next]_vars

SpecFormat == InitFormat /\ [][Next]_vars

SpecStep == InitStep /\ [][Next]_vars

SpecQuality == InitQuality /\ [][Next]_vars

SpecUtils == InitUtils /\ [][NextUtils]_vars

SpecPipeline == InitPipeline /\ [][Next]_vars

SpecOrder == InitOrder /\ [][Next]_vars

SpecBoth == InitBoth /\ [][Next]_vars

SpecPage == InitPage /\ [][NextPage]_vars

\* a fetch settles: the browser answers it or fails it
SpecPageFair ==
  SpecPage /\ WF_vars(ConvertSettles) /\ WF_vars(EstimateSettles)

\* ================================================================ claims
\* the jobs that entered encodeToTargetSize
Searching == {j \in Jobs : jobs[j].loopEncodes > 0}

\* C1: the buffer a target-size search returns is at least as close to
\* targetBytes as the buffer of every encode the search performed.
C1_ReturnedIsClosest ==
  \A j \in Searching :
     jobs[j].pc = "done" =>
       LET t == jobs[j].targetBytes
           got == jobs[j].returned[1].length
           dist(n) == IF t = Infinity THEN Infinity
                      ELSE IF n >= t THEN n - t ELSE t - n
       IN \A n \in jobs[j].seen : dist(got) <= dist(n)

\* a finished search whose closest buffer was not the last one encoded, with
\* encodes both above and below a finite target
C1_Witness ==
  \E j \in Searching :
     /\ jobs[j].pc = "done"
     /\ jobs[j].targetBytes # Infinity
     /\ jobs[j].returned[1].iter < 8
     /\ \E a, b \in jobs[j].seen : a < jobs[j].targetBytes /\ b > jobs[j].targetBytes
     /\ jobs[j].returned[1].length # jobs[j].targetBytes

\* C2: a search runs its 8 loop iterations, exits neither before nor on an
\* exact match, and a job with a positive target makes at most 8 encode
\* calls in all.
C2_EightEncodesAtMost ==
  \A j \in Searching :
     /\ jobs[j].encodeCalls <= 8
     /\ jobs[j].pc \in {"done", "fallback"} => jobs[j].loopEncodes = 8

\* C3: a job whose target size is zero or absent makes exactly one encode
\* call, at the resolved quality, and the search is entered only for a
\* strictly positive target.
C3_SinglePass ==
  \A j \in Jobs :
     /\ j \in Searching => form.targetSizeKB \in {"1", "2", "1e306"}
     /\ form.targetSizeKB \in {null, "0"} =>
          /\ jobs[j].encodeCalls <= 1
          /\ jobs[j].pc \in {"single", "done", "failed"} => jobs[j].encodeCalls = 1
          /\ jobs[j].pc \in {"single", "done"} =>
               jobs[j].call.quality =
                 (CASE form.quality = "30" -> 30
                    [] form.quality = "100" -> 100
                    [] OTHER -> 75)
          /\ jobs[j].pc = "done" => jobs[j].returned[1].src = "single"

\* a finished job with target "0" and one with no target
C3_Witness ==
  \E j \in Jobs :
     /\ form.targetSizeKB = "0"
     /\ form.quality = "30"
     /\ jobs[j].pc = "done"
     /\ jobs[j].encodeCalls = 1

MonoDone ==
  {j \in Searching :
     /\ jobs[j].pc = "done"
     /\ files[j].monotone
     /\ req.quality = 75
     /\ \E kn \in files[j].natural : kn[1] = 75 /\ kn[2] > jobs[j].targetBytes}

\* C5 as stated: the returned buffer is strictly closer to targetBytes than
\* the encode at quality 75.
C5_StrictlyCloser ==
  \A j \in MonoDone :
     \A kn \in files[j].natural :
        LET t == jobs[j].targetBytes
            got == jobs[j].returned[1].length
        IN (IF got >= t THEN got - t ELSE t - got) < kn[2] - t

C5_NoFarther ==
  \A j \in MonoDone :
     \A kn \in files[j].natural :
        LET t == jobs[j].targetBytes
            got == jobs[j].returned[1].length
        IN (IF got >= t THEN got - t ELSE t - got) <= kn[2] - t

\* a finished search from 75 that came strictly closer than the encode at 75,
\* with a buffer encoded at a quality below 75
C5_Witness ==
  \E j \in MonoDone :
     \E kn \in files[j].natural :
        /\ jobs[j].returned[1].call.quality < 75
        /\ jobs[j].returned[1].length < kn[2]
        /\ jobs[j].returned[1].length >= jobs[j].targetBytes

\* the jobs that resolved their output format
Resolved == {j \in Jobs : jobs[j].pc \notin {"idle", "read"}}

\* C6: the resolved output format is always one of jpeg, png, webp, avif,
\* tiff, gif, whatever the format field and the source extension are.
C6_ResolvedFormatInSet ==
  \A j \in Resolved :
     jobs[j].outputFormat \in {"jpeg", "png", "webp", "avif", "tiff", "gif"}

\* C7: a job with an unrecognized format value is resolved to jpeg: encoded
\* by the jpeg codec at the given quality and labelled image/jpeg, ".jpg".
C7_UnknownFormatIsJpeg ==
  \A j \in Resolved :
     (route = "convert" /\ form.format \in {"bmp", "JPEG"}) =>
        /\ jobs[j].pc # "failed"
        /\ jobs[j].call.codec = "jpeg"
        /\ jobs[j].call.quality = jobs[j].quality
        /\ jobs[j].pc = "done" =>
             /\ jobs[j].output.mime = "image/jpeg"
             /\ LET n == jobs[j].output.name
                IN Len(n) >= 2 /\ n[Len(n) - 1] = "." /\ n[Len(n)] = "jpg"

\* C8: normalizeFormat returns the requested format, jpg mapped to jpeg,
\* whatever the extension when the request is not auto; under auto it maps
\* the extension through the table and anything else to jpeg.
C8_NormalizeFormat ==
  LET table == [jpeg |-> "jpeg", jpg |-> "jpeg", png |-> "png", webp |-> "webp",
                avif |-> "avif", tiff |-> "tiff", gif |-> "gif"]
      want(f, e) == IF f # "auto" THEN (IF f = "jpg" THEN "jpeg" ELSE f)
                    ELSE IF e \in DOMAIN table THEN table[e] ELSE "jpeg"
      requested == IF form.format \in {null, ""} THEN "auto" ELSE form.format
  IN /\ \A j \in Resolved :
          jobs[j].outputFormat = want(requested, getExtension(files[j].name))
     /\ \A f \in FormatValues \ {null, ""} :
          /\ normalizeFormatEstimate(f, undefined) = want(f, "")
          /\ \A n \in FormatNames :
               /\ normalizeFormatEstimate(f, getExtension(n)) = want(f, getExtension(n))
               /\ normalizeFormat(f, getExtension(n)) = want(f, getExtension(n))

\* the estimate endpoint resolved auto on "a.JPG" to jpeg
C8_Witness ==
  \E j \in Resolved :
     /\ route = "estimate"
     /\ form.format = "auto"
     /\ files[j].name = <<"a", ".", "J", "P", "G">>
     /\ jobs[j].outputFormat = "jpeg"

\* C9: the pipeline of a job holds the flatten stage iff the flatten flag is
\* true and the resolved format is none of png, webp, avif, gif.
C9_FlattenIffOpaque ==
  \A j \in Resolved :
     (\E k \in 1..Len(jobs[j].call.pipeline) : jobs[j].call.pipeline[k].op = "flatten")
       <=> (/\ form.flatten \in {"true", "1"}
            /\ jobs[j].outputFormat \notin {"png", "webp", "avif", "gif"})

\* flatten requested under auto: kept off for a gif source
C9_Witness ==
  \E j \in Resolved :
     /\ form.format = "auto"
     /\ form.flatten = "true"
     /\ jobs[j].outputFormat = "gif"
     /\ jobs[j].pc = "done"
     /\ \A k \in 1..Len(jobs[j].call.pipeline) : jobs[j].call.pipeline[k].op # "flatten"

\* C10 as stated: in a batch, the jobs that ran to completion yield their
\* outputs in the response although a sibling job failed.
C10_SiblingsYieldOutputs ==
  (/\ Len(files) >= 2
   /\ \E j \in Jobs : jobs[j].pc = "failed")
    => \A k \in Jobs :
          jobs[k].pc = "done" =>
             /\ response.status = 200
             /\ Len(response.body) = Len(files)
             /\ response.body[k] = jobs[k].output

\* C10 amended: a codec failure in one job fails the whole request with a
\* 500 that carries no output; the sibling jobs are not aborted (only a job
\* on a corrupt image fails).
C10_FailureFailsRequest ==
  /\ (\E j \in Jobs : jobs[j].pc = "failed") =>
        /\ pc = "responded"
        /\ response.status = 500
        /\ response.body = <<>>
  /\ \A k \in Jobs : jobs[k].pc = "failed" => files[k].corrupt

\* a batch in which one job failed and a sibling still ran through its eight
\* search iterations to completion, after the 500
C10_Witness ==
  /\ Len(files) >= 2
  /\ response.status = 500
  /\ \E j, k \in Jobs :
       /\ jobs[j].pc = "failed"
       /\ jobs[k].pc = "done"
       /\ jobs[k].encodeCalls = 8

\* the length the encoder returns for a step-curve image at a quality
CurveAt(file, quality) ==
  CHOOSE len \in file.sizes :
    \A kn \in file.natural :
       /\ kn[1] <= quality => kn[2] <= len
       /\ kn[1] >= quality => kn[2] >= len

\* the search of one image run alone, after k loop iterations
RECURSIVE AloneAfter(_, _, _)
AloneAfter(file, targetBytes, k) ==
  IF k = 0
  THEN [low |-> 30, high |-> 75, bestDiff |-> Infinity, bestLength |-> 0,
        bestIter |-> 0]
  ELSE LET s == AloneAfter(file, targetBytes, k - 1)
           quality == (s.low + s.high + 1) \div 2
           len == CurveAt(file, quality)
           diff == IF len >= targetBytes THEN len - targetBytes
                   ELSE targetBytes - len
           better == diff < s.bestDiff
       IN [low |-> IF len > targetBytes THEN s.low ELSE quality + 2,
           high |-> IF len > targetBytes THEN quality - 2 ELSE s.high,
           bestDiff |-> IF better THEN diff ELSE s.bestDiff,
           bestLength |-> IF better THEN len ELSE s.bestLength,
           bestIter |-> IF better THEN k ELSE s.bestIter]

StepJobs == {j \in Jobs : files[j].natural # {} /\ jobs[j].loopEncodes > 0}

\* C11: under every interleaving of the jobs of a batch, the search state
\* (low, high, best) of each job and the buffer it returns are those of the
\* same job run alone.
C11_AsIfAlone ==
  \A j \in StepJobs :
     LET a == AloneAfter(files[j], jobs[j].targetBytes, jobs[j].i)
     IN /\ jobs[j].low = a.low
        /\ jobs[j].high = a.high
        /\ jobs[j].bestDiff = a.bestDiff
        /\ jobs[j].bestBuffer = <<>> <=> a.bestIter = 0
        /\ jobs[j].bestBuffer # <<>> =>
             /\ jobs[j].bestBuffer[1].length = a.bestLength
             /\ jobs[j].bestBuffer[1].iter = a.bestIter
        /\ jobs[j].pc = "search" =>
             jobs[j].quality = (a.low + a.high + 1) \div 2
        /\ jobs[j].pc = "done" =>
             /\ jobs[j].i = 8
             /\ jobs[j].returned[1].length = a.bestLength
             /\ jobs[j].returned[1].iter = a.bestIter

\* two jobs of one batch on different images: the first has returned while
\* the second is in the middle of its search, on other bounds
C11_Witness ==
  /\ Len(files) >= 2
  /\ {1, 2} \subseteq StepJobs
  /\ files[1] # files[2]
  /\ jobs[1].pc = "done"
  /\ jobs[2].pc = "search" /\ jobs[2].i = 4
  /\ jobs[1].returned[1].length # jobs[2].bestBuffer[1].length
  /\ jobs[2].low > 30 /\ jobs[2].high < 75

\* C12: the quality of a request is the quality field when one is supplied
\* (a string that parses to a finite number), otherwise the table value of
\* the supplied preset, and 75 when the preset is absent or not in the table.
C12_QualityResolved ==
  (pc # "received" /\ Len(files) > 0) =>
     LET expected == CASE form.quality = "0" -> 0
                  [] form.quality = "30" -> 30
                  [] form.quality = "100" -> 100
                  [] form.preset = "tiny" -> 45
                  [] form.preset = "small" -> 60
                  [] form.preset = "crisp" -> 88
                  [] OTHER -> 75
     IN /\ req.quality = expected
        /\ \A j \in Jobs :
             (jobs[j].pc \in {"single", "done"} /\ jobs[j].loopEncodes = 0) =>
                jobs[j].call.quality = expected

\* C13: safeNumber returns the number itself for a finite number and for a
\* string that parses to a finite number, and the fallback for null,
\* undefined, an unparseable string and a non-finite value.
C13_SafeNumber ==
  util.fn \in {"safeNumber", "safeNumberUtils"} =>
     LET v == util.value
     IN /\ (v.t = "number" /\ v.n \in {0, 1, -1, 30}) => util.result = v.n
        /\ (v.t = "string" /\ v.s = "0") => util.result = 0
        /\ (v.t = "string" /\ v.s = "1") => util.result = 1
        /\ (v.t = "string" /\ v.s = "30") => util.result = 30
        /\ (v.t = "string" /\ v.s = "123") => util.result = 123
        /\ (v.t = "string" /\ v.s = "1e306") => util.result = Huge
        /\ v.t \in {"null", "undefined"} => util.result = util.fallback
        /\ (v.t = "string" /\ v.s \in {"invalid", "true", "false", "Infinity"}) =>
             util.result = util.fallback
        /\ (v.t = "number" /\ v.n \in {NaN, Infinity}) =>
             util.result = util.fallback

FourTrue(v) ==
  \/ v.t = "string" /\ v.s \in {"true", "1"}
  \/ v.t = "number" /\ v.n = 1
  \/ v.t = "boolean" /\ v.b

ExpectedExtension(name) ==
  CASE name = <<"a", ".", "j", "p", "g">> -> "jpg"
    [] name = <<"a", ".", "J", "P", "G">> -> "jpg"
    [] name = <<"a", ".", "j", "p", "e", "g">> -> "jpeg"
    [] name = <<"a", ".", "p", "n", "g">> -> "png"
    [] name = <<"a", ".", "w", "e", "b", "p">> -> "webp"
    [] name = <<"a", ".", "a", "v", "i", "f">> -> "avif"
    [] name = <<"a", ".", "t", "i", "f", "f">> -> "tiff"
    [] name = <<"a", ".", "g", "i", "f">> -> "gif"
    [] name = <<"a", ".", "b", "m", "p">> -> "bmp"
    [] name = <<"a", ".", "b", ".", "P", "n", "g">> -> "png"
    [] name = <<"a">> -> ""
    [] name = <<"a", ".">> -> ""
    [] name = <<".", "g", "i", "f">> -> "gif"
    [] name = <<"f", "i", "l", "e", ".", "t", "x", "t">> -> "txt"
    [] name = <<"M", "y", "P", "h", "o", "t", "o", ".", "J", "P", "G">> -> "jpg"
    [] name = <<"f", "i", "l", "e">> -> ""
    [] name = <<".", "c", "o", "n", "f", "i", "g">> -> "config"
    [] name = <<"f", "i", "l", "e", ".">> -> ""
    [] name = <<>> -> ""
    [] name = <<".">> -> ""
    [] name = <<".", ".">> -> ""
    [] name = <<"a", ".", ".", "p", "n", "g">> -> "png"
    [] name = <<"a", ".", "t", "a", "r", ".", "G", "Z">> -> "gz"

\* C15: getExtension returns the lowercased text after the last "." of the
\* name, and the empty string when the name has no "." or ends in ".".
C15_GetExtension ==
  util.fn = "getExtension" =>
     /\ util.result = ExpectedExtension(util.name)
     /\ (\A k \in 1..Len(util.name) : util.name[k] # ".") => util.result = ""
     /\ (util.name # <<>> /\ util.name[Len(util.name)] = ".") => util.result = ""

\* the extension of a name with two dots and capitals
C15_Witness ==
  /\ util.fn = "getExtension"
  /\ util.name = <<"a", ".", "t", "a", "r", ".", "G", "Z">>
  /\ util.result = "gz"

\* the MIME type of an image format
MimeOf(format) ==
  CASE format = "jpeg" -> "image/jpeg"
    [] format = "png" -> "image/png"
    [] format = "webp" -> "image/webp"
    [] format = "avif" -> "image/avif"
    [] format = "tiff" -> "image/tiff"
    [] format = "gif" -> "image/gif"
    [] OTHER -> "image/" \o format

\* C16: the convert endpoint answers no file with a 400 and no encode, one
\* file with that file's encoded bytes under the MIME type of the resolved
\* format, and two or more files with one ZIP holding one entry per file.
C16_ResponseByCount ==
  (route = "convert" /\ pc = "responded") =>
     /\ Len(files) = 0 =>
          /\ response.status = 400
          /\ jobs = <<>>
     /\ Len(files) > 0 => response.status \in {200, 500}
     /\ (Len(files) = 1 /\ response.status = 200) =>
          /\ response.body = jobs[1].returned
          /\ response.contentType = MimeOf(jobs[1].outputFormat)
     /\ (Len(files) >= 2 /\ response.status = 200) =>
          /\ response.contentType = "application/zip"
          /\ Len(response.body) = Len(files)
          /\ \A k \in Jobs : response.body[k].buffer = jobs[k].returned

\* the jobs whose loop encodes are all on record, on a finite target
Recorded ==
  {j \in Jobs : /\ jobs[j].hist # <<>>
                /\ Len(jobs[j].hist) = jobs[j].loopEncodes
                /\ jobs[j].targetBytes # Infinity}

\* |size - targetBytes| of the encode of iteration k
DiffAt(j, k) ==
  IF jobs[j].hist[k] >= jobs[j].targetBytes
  THEN jobs[j].hist[k] - jobs[j].targetBytes
  ELSE jobs[j].targetBytes - jobs[j].hist[k]

\* the iterations of job j whose encode has returned
Returned(j) == 1..jobs[j].i

\* the earliest of the iterations so far that reached the minimal diff
EarliestMinimal(j) ==
  CHOOSE k \in Returned(j) :
    /\ \A m \in Returned(j) : DiffAt(j, k) <= DiffAt(j, m)
    /\ \A m \in Returned(j) : DiffAt(j, m) = DiffAt(j, k) => k <= m

\* C20: the best candidate of a search is replaced only on a strictly
\* smaller diff: the candidate held, and the buffer returned, is the one of
\* the earliest iteration that reached the minimal |size - targetBytes|.
C20_EarliestMinimalWins ==
  \A j \in Recorded :
     jobs[j].i > 0 =>
       /\ jobs[j].bestBuffer # <<>>
       /\ jobs[j].bestBuffer[1].iter = EarliestMinimal(j)
       /\ jobs[j].bestBuffer[1].length = jobs[j].hist[EarliestMinimal(j)]
       /\ jobs[j].bestDiff = DiffAt(j, EarliestMinimal(j))
       /\ jobs[j].pc = "done" => jobs[j].returned = jobs[j].bestBuffer

\* a finished search in which three iterations after the first reached the
\* minimal diff, and the buffer of the first of them was returned
C20_Witness ==
  \E j \in Recorded :
     /\ jobs[j].pc = "done"
     /\ jobs[j].returned[1].iter = 2
     /\ DiffAt(j, 1) > DiffAt(j, 2)
     /\ DiffAt(j, 3) = DiffAt(j, 2)
     /\ DiffAt(j, 4) = DiffAt(j, 2)

\* C17: Export is available exactly when the queue is non-empty and no
\* conversion is in flight, Estimate exactly when the queue is non-empty and
\* neither an estimate nor a conversion is in flight, and at most one
\* /api/convert request is in flight.
C17_OneConvertInFlight ==
  page.mounted =>
     /\ ~ExportDisabled(page) <=>
          (Len(page.files) > 0 /\ Len(page.converts) = 0)
     /\ ~EstimateDisabled(page) <=>
          (Len(page.files) > 0 /\ Len(page.estimates) = 0 /\ Len(page.converts) = 0)
     /\ Len(page.converts) <= 1

\* a conversion started while an estimate was in flight: neither button is
\* available on the non-empty queue
C17_Witness ==
  /\ Len(page.files) > 0
  /\ Len(page.converts) = 1
  /\ Len(page.estimates) = 1
  /\ ExportDisabled(page)
  /\ EstimateDisabled(page)

\* C18: every conversion and every estimate started from the page
\* eventually completes with its flag (processing, estimating) reset; on
\* success the status is done and the result or the estimate list is set,
\* on failure the error message is set and the status is idle.
C18_RequestsComplete ==
  /\ [][/\ (\E i \in 1..MaxInFlight : ConvertResolved(i)) =>
            ~page'.processing /\ page'.status = "done" /\ page'.result # <<>>
        /\ (\E i \in 1..MaxInFlight : \E payload \in ErrorPayloads :
               ConvertRejected(i, payload)) =>
            ~page'.processing /\ page'.status = "idle" /\ page'.error # ""
        /\ (\E i \in 1..MaxInFlight : EstimateResolved(i)) =>
            ~page'.estimating /\ page'.status = "done" /\ page'.estimate # <<>>
        /\ (\E i \in 1..MaxInFlight : \E payload \in ErrorPayloads :
               EstimateRejected(i, payload)) =>
            ~page'.estimating /\ page'.status = "idle" /\ page'.error # ""]_vars
  /\ (page.processing \/ Len(page.converts) > 0)
       ~> (Len(page.converts) = 0 /\ ~page.processing)
  /\ (page.estimating \/ Len(page.estimates) > 0)
       ~> (Len(page.estimates) = 0 /\ ~page.estimating)

\* a conversion and an estimate of two files have both succeeded, the
\* conversion having started while the estimate was in flight
C18_Witness ==
  /\ page.result # <<>> /\ page.result[1].count = 2
  /\ Len(page.estimate) = 2
  /\ page.status = "done"
  /\ ~page.processing /\ ~page.estimating
  /\ page.converts = <<>> /\ page.estimates = <<>>

\* C19: Clear leaves the queue empty, the result null, the estimate list
\* empty and the status idle, and changes nothing else: format, preset,
\* quality, the toggles, the error message and the in-flight flags stay.
C19_ClearFrame ==
  [][clearAll =>
       /\ page'.files = <<>>
       /\ page'.result = <<>>
       /\ page'.estimate = <<>>
       /\ page'.status = "idle"
       /\ page' = [page EXCEPT !.files = <<>>, !.result = <<>>,
                               !.estimate = <<>>, !.status = "idle"]]_vars

\* the page after Clear was pressed during a conversion, with an error
\* message showing and settings changed from their defaults
C19_Witness ==
  /\ page.files = <<>> /\ page.result = <<>> /\ page.estimate = <<>>
  /\ page.status = "idle"
  /\ page.processing
  /\ page.error # ""
  /\ page.format # "auto"
  /\ page.preset # "balanced"
  /\ page.progressive


\* C21: in a target-size search no two adjacent iterations encode at the
\* same quality value.
C21_NoRepeatedQuality ==
  [][\A j \in Jobs :
       (/\ jobs[j].pc = "search"
        /\ jobs'[j].pc = "search"
        /\ jobs'[j].i = jobs[j].i + 1) =>
          jobs'[j].quality # jobs[j].quality]_vars

\* C22: every quality the target-size search passes to the encoder lies in
\* 30..95.
C22_QualityInRange ==
  \A j \in Searching :
     jobs[j].pc = "search" => jobs[j].quality \in 30..95


\* C23: the iterations of a search are sequential: the encodes started
\* exceed the encodes completed by one while the job awaits an encode (or
\* that encode was rejected) and by none once the loop is over, and the
\* encode awaited is at the midpoint of the bounds as updated from the sizes
\* of all encodes before it.
C23_OneEncodeInFlight ==
  \A j \in Searching :
     /\ jobs[j].loopEncodes - jobs[j].i \in {0, 1}
     /\ jobs[j].pc = "search" => jobs[j].loopEncodes = jobs[j].i + 1
     /\ jobs[j].pc \in {"fallback", "done"} => jobs[j].loopEncodes = jobs[j].i
     /\ jobs[j].pc = "search" =>
          /\ jobs[j].quality = RoundHalf(jobs[j].low, jobs[j].high)
          /\ jobs[j].call.quality = jobs[j].quality
          /\ Cardinality(jobs[j].seen) <= jobs[j].i

\* a job awaiting its sixth encode, five having returned and moved both
\* bounds
C23_Witness ==
  \E j \in Searching :
     /\ jobs[j].pc = "search"
     /\ jobs[j].i = 5
     /\ jobs[j].loopEncodes = 6
     /\ jobs[j].low > 30
     /\ jobs[j].high < 75
     /\ Cardinality(jobs[j].seen) >= 2


\* the jobs that have set up an encode, and the stages of its pipeline
Encoding == {j \in Jobs : jobs[j].call # NoCall}

Stages(j) == jobs[j].call.pipeline

StageRank(op) ==
  CASE op = "rotate" -> 1
    [] op = "resize" -> 2
    [] op = "withMetadata" -> 3
    [] op = "flatten" -> 4

HasStage(j, op) == \E k \in 1..Len(Stages(j)) : Stages(j)[k].op = op

\* C24: every pipeline starts with the rotate stage, its stages are in the
\* order rotate, resize, metadata retention, flatten, each at most once, and
\* the metadata stage is present exactly when keepMetadata is true.
C24_StageOrder ==
  \A j \in Encoding :
     /\ Len(Stages(j)) >= 1
     /\ Stages(j)[1].op = "rotate"
     /\ \A k, m \in 1..Len(Stages(j)) :
          k < m => StageRank(Stages(j)[k].op) < StageRank(Stages(j)[m].op)
     /\ HasStage(j, "withMetadata") <=> form.keepMetadata \in {"true", "1"}

\* a pipeline with all four stages
C24_Witness ==
  \E j \in Encoding :
     /\ Len(Stages(j)) = 4
     /\ Stages(j)[2].op = "resize"
     /\ Stages(j)[3].op = "withMetadata"
     /\ Stages(j)[4].op = "flatten"

\* the resize stage of the pipeline of job j
ResizeStage(j) ==
  CHOOSE st \in {Stages(j)[k] : k \in 1..Len(Stages(j))} : st.op = "resize"

\* the number a width or height field stands for, 0 when it is absent, empty
\* or not a number
Dimension(field) ==
  CASE field = "100" -> 100
    [] field = "40" -> 40
    [] field = "-1" -> -1
    [] OTHER -> 0

\* C25: the resize stage is present exactly when the requested width or
\* height is non-zero; a resize that is applied has the requested
\* dimensions, enlargement disabled and fit "inside" unless a fit was given.
C25_ResizeIffRequested ==
  \A j \in Encoding :
     /\ HasStage(j, "resize") <=>
          (Dimension(form.width) # 0 \/ Dimension(form.height) # 0)
     /\ HasStage(j, "resize") =>
          /\ ResizeStage(j).withoutEnlargement = TRUE
          /\ ResizeStage(j).fit = IF form.fit = null THEN "inside" ELSE form.fit
          /\ ResizeStage(j).width = IF Dimension(form.width) # 0
                                    THEN Dimension(form.width) ELSE UndefinedNum
          /\ ResizeStage(j).height = IF Dimension(form.height) # 0
                                     THEN Dimension(form.height) ELSE UndefinedNum

\* a resize by height alone where the width field was "0", with no fit field
C25_Witness ==
  \E j \in Encoding :
     /\ form.width = "0"
     /\ form.height = "40"
     /\ form.fit = null
     /\ HasStage(j, "resize")
     /\ ResizeStage(j).fit = "inside"
     /\ jobs[j].pc = "done"


\* C26: from one iteration of a target-size search to the next low never
\* decreases and high never increases, also once low has passed high; each
\* iteration leaves one of the two as it was.
C26_BoundsOnlyTighten ==
  [][\A j \in Jobs :
       (/\ jobs[j].pc = "search"
        /\ jobs'[j].i = jobs[j].i + 1) =>
          /\ jobs'[j].low >= jobs[j].low
          /\ jobs'[j].high <= jobs[j].high
          /\ jobs'[j].low = jobs[j].low \/ jobs'[j].high = jobs[j].high]_vars

\* a search that has gone on after its bounds crossed: the crossing leaves
\* low at most two above high, here later iterations took it to four above
C26_Witness ==
  \E j \in Searching :
     /\ jobs[j].pc = "search"
     /\ jobs[j].i \in 4..7
     /\ jobs[j].low = jobs[j].high + 4
     /\ jobs[j].high < 40


\* the records of a multi-file response: the ZIP entries of /api/convert,
\* the files array of /api/estimate
Entries ==
  IF pc = "responded" /\ response.status = 200 /\ Len(files) >= 2
  THEN response.body ELSE <<>>

\* C27: the k-th ZIP entry and the k-th estimate record belong to the k-th
\* submitted file, in whatever order the per-file jobs resolved: it has that
\* file's name (with the output extension), and that file's encoded bytes.
C27_SubmittedOrder ==
  /\ Len(Entries) \in {0, Len(files)}
  /\ \A k \in 1..Len(Entries) :
       /\ baseName(Entries[k].name) = baseName(files[k].name)
       /\ IF route = "estimate"
          THEN /\ Entries[k].inputName = files[k].name
               /\ Entries[k].outputSize \in files[k].sizes
          ELSE Entries[k].buffer[1].length \in files[k].sizes

\* two different files whose jobs resolved in the reverse of the submitted
\* order
C27_Witness ==
  /\ Len(Entries) = 2
  /\ files[1].name # files[2].name
  /\ jobs[1].order = 2
  /\ jobs[2].order = 1
  /\ route = "convert"


\* What the convert route (lines 203-256) decides for the k-th file of a
\* request, as a function of the form and the file alone.
ConvertDecision(k) ==
  LET preset == IF TruthyStr(form.preset) THEN form.preset ELSE "balanced"
      quality == safeNumber(FormValue(form.quality), presetQuality(preset))
      targetSizeKB == safeNumber(FormValue(form.targetSizeKB), 0)
      resizeWidth == safeNumber(FormValue(form.width), 0)
      resizeHeight == safeNumber(FormValue(form.height), 0)
      outputFormat ==
        normalizeFormat(IF TruthyStr(form.format) THEN form.format ELSE "auto",
                        getExtension(files[k].name))
      shouldFlatten == toBoolean(FormValue(form.flatten))
                         /\ outputFormat \notin hasAlphaFormats
  IN [outputFormat |-> outputFormat,
      quality |-> quality,
      search |-> targetSizeKB > 0,
      targetBytes |-> Times1024(targetSizeKB),
      options |->
        [width |-> IF TruthyNum(resizeWidth) THEN resizeWidth ELSE UndefinedNum,
         height |-> IF TruthyNum(resizeHeight) THEN resizeHeight
                    ELSE UndefinedNum,
         fit |-> IF TruthyStr(form.fit) THEN form.fit ELSE "inside",
         keepMetadata |-> toBoolean(FormValue(form.keepMetadata)),
         background |-> IF shouldFlatten
                        THEN (IF TruthyStr(form.background) THEN form.background
                              ELSE "#ffffff")
                        ELSE undefined,
         lossless |-> toBoolean(FormValue(form.lossless)),
         progressive |-> toBoolean(FormValue(form.progressive))],
      name |-> baseName(files[k].name)
                 \o <<".", IF outputFormat = "jpeg" THEN "jpg" ELSE outputFormat>>]

\* the search of lines 149-193 on a file whose encoded length is CurveAt,
\* after k loop iterations
RECURSIVE SearchAfter(_, _, _, _)
SearchAfter(file, targetBytes, baseQuality, k) ==
  IF k = 0
  THEN [low |-> 30, high |-> Max(baseQuality, 40), bestDiff |-> Infinity,
        bestLength |-> 0, bestIter |-> 0]
  ELSE LET s == SearchAfter(file, targetBytes, baseQuality, k - 1)
           quality == (s.low + s.high + 1) \div 2
           len == CurveAt(file, quality)
           diff == MathAbs(Minus(len, targetBytes))
           better == diff < s.bestDiff
       IN [low |-> IF len > targetBytes THEN s.low ELSE quality + 2,
           high |-> IF len > targetBytes THEN quality - 2 ELSE s.high,
           bestDiff |-> IF better THEN diff ELSE s.bestDiff,
           bestLength |-> IF better THEN len ELSE s.bestLength,
           bestIter |-> IF better THEN k ELSE s.bestIter]

\* the byte length the convert route produces for the k-th file
ConvertLength(k) ==
  LET d == ConvertDecision(k)
      s == SearchAfter(files[k], d.targetBytes, d.quality, 8)
  IN IF d.search /\ s.bestIter # 0 THEN s.bestLength
     ELSE CurveAt(files[k], d.quality)

\* the jobs past their first encode call on an image the encoder accepts
Decided ==
  {j \in Jobs : jobs[j].call # NoCall /\ jobs[j].pc # "failed"}

\* C28: on either endpoint every job resolves the format, the quality, the
\* pipeline and the single-pass-or-search choice as the convert route does
\* for the same form and file, follows the same search trajectory, and ends
\* with the same length: the outputSize of /api/estimate is the byte length
\* of the /api/convert output.
C28_SameDecisions ==
  \A j \in Decided :
     LET d == ConvertDecision(j)
         s == SearchAfter(files[j], d.targetBytes, d.quality, jobs[j].i)
     IN /\ jobs[j].outputFormat = d.outputFormat
        /\ jobs[j].options = d.options
        /\ (jobs[j].loopEncodes > 0) <=> d.search
        /\ jobs[j].call.pipeline = buildPipeline(d.options)
        /\ ~d.search =>
             /\ jobs[j].pc \in {"single", "done"}
             /\ jobs[j].call = encodeWithQuality(d.outputFormat, d.quality, d.options)
        /\ d.search =>
             /\ jobs[j].targetBytes = d.targetBytes
             /\ jobs[j].low = s.low
             /\ jobs[j].high = s.high
             /\ jobs[j].bestDiff = s.bestDiff
             /\ jobs[j].bestBuffer = <<>> <=> s.bestIter = 0
             /\ jobs[j].bestBuffer # <<>> =>
                  /\ jobs[j].bestBuffer[1].length = s.bestLength
                  /\ jobs[j].bestBuffer[1].iter = s.bestIter
             /\ jobs[j].pc = "search" =>
                  jobs[j].call =
                    encodeWithQuality(d.outputFormat,
                                      (s.low + s.high + 1) \div 2, d.options)
             /\ jobs[j].pc = "fallback" =>
                  jobs[j].call =
                    encodeWithQuality(d.outputFormat, d.quality, d.options)
        /\ jobs[j].pc = "done" =>
             /\ jobs[j].output.name = d.name
             /\ jobs[j].returned[1].length = ConvertLength(j)
             /\ IF route = "estimate"
                THEN jobs[j].output.outputSize = ConvertLength(j)
                ELSE jobs[j].output.buffer[1].length = ConvertLength(j)

\* the estimate of a search that flattened a PNG to JPEG and settled on a
\* buffer of an iteration after the first
C28_Witness ==
  /\ route = "estimate"
  /\ pc = "responded"
  /\ response.status = 200
  /\ form.flatten = "true"
  /\ \E j \in Decided :
       /\ jobs[j].pc = "done"
       /\ jobs[j].loopEncodes = 8
       /\ jobs[j].returned[1].iter > 1
       /\ jobs[j].outputFormat = "jpeg"
       /\ getExtension(files[j].name) = "png"
       /\ jobs[j].options.background # undefined
       /\ response.body[j].outputSize = jobs[j].returned[1].length


\* C29: the preview URL of every file in the queue and the URL of the
\* displayed export result have not been revoked.
C29_LiveUrlsNotRevoked ==
  page.mounted =>
     /\ \A k \in 1..Len(page.files) : ~page.files[k].revoked
     /\ \A k \in 1..Len(page.result) : ~page.result[k].revoked

\* C30: the status is "processing" whenever a conversion or an estimate is
\* in flight (processing or estimating is true).
C30_ProcessingWhileInFlight ==
  page.mounted =>
     ((page.processing \/ page.estimating) => page.status = "processing")

====
